---------------------------- MODULE Spec2Model ----------------------------
(***************************************************************************)
(* Model of extensions/ql-vscode/src/helpers.ts:                           *)
(*   - CachedOperation: keyed async cache with in-flight sharing and an    *)
(*     lru list (lines 411-463);                                           *)
(*   - ArchiveFileSystemProvider: stat / readDirectory / readFile over a   *)
(*     zip archive addressed by uri.path and uri.fragment (lines 618-727). *)
(* JavaScript runs one job at a time: every action below is one           *)
(* synchronous run of code, from a call or a promise continuation to the   *)
(* next await.                                                             *)
(***************************************************************************)
EXTENDS Naturals, Integers, Sequences, FiniteSets, TLC

(***************************************************************************)
(* Bounds of the model.                                                    *)
(***************************************************************************)
\* number of get() calls issued in one behaviour
MaxCalls == 4
\* the cacheSize given to the constructor ranges over 1..MaxCacheSize
MaxCacheSize == 2

\* the keys passed to get
Keys == {"a", "b", "c"}
\* values of type U other than undefined
Values == {"r1", "r2"}
\* JavaScript's undefined: what Map.get answers for a missing key, and a
\* value a producer of type Promise<U> may resolve with
undefined == "undefined"
\* the values the producer resolves with, undefined among them
Results == Values \cup {undefined}
\* the errors the producer rejects (or throws) with
Errors == {"e1"}
\* the out field of a call that has not settled
NoOutcome == "none"

VARIABLES
  cacheSize,            \* CachedOperation.cacheSize (constructor parameter)
  cached,               \* CachedOperation.cached: Map<string, U>
  lru,                  \* CachedOperation.lru: string[]
  inProgressCallbacks,  \* CachedOperation.inProgressCallbacks: key -> waiters
  calls,                \* the promises returned by get(), in call order
  recency               \* history: the memoized keys, least recently accessed first

VARIABLES
  files,                \* the host filesystem: archive path -> the archive's listing
  requests              \* the provider calls made so far, in call order

VARIABLES
  root,                 \* ArchiveFileSystemProvider.root: the entry tree
  thrown,               \* what the last call of a write operation threw
  watches,              \* the disposables watch() returned: "live" or "disposed"
  bufferedEvents,       \* ArchiveFileSystemProvider._bufferedEvents
  fireSoonHandle,       \* ArchiveFileSystemProvider._fireSoonHandle, 0: undefined
  timers,               \* the runtime's timeouts that are set and have not run
  emissions,            \* the events fired on _emitter, with the time of each
  nQueued,              \* how many change records were passed to _fireSoon
  windowStart,          \* history: when the oldest buffered record was queued, -1: none
  now                   \* the clock, in milliseconds

VARIABLES
  globalState,          \* extensionContext.globalState: key -> stored value
  clock,                \* the date that createDate() answers, in milliseconds
  invocations           \* the calls of invokeFunctionIfIntervalElapsed, in call order

cacheVars == <<cacheSize, cached, lru, inProgressCallbacks, calls, recency>>

rateVars == <<globalState, clock, invocations>>

\* the helpers that are no part of the provider
VARIABLES
  handlerCalls,         \* the calls of the registered command handlers, in call order
  reports               \* what was logged and shown to the user, in order

cmdVars == <<handlerCalls, reports>>

helperVars == <<cacheVars, rateVars, cmdVars>>

fsVars == <<files, requests>>

\* the provider's own fields and the handles it gave out
provVars == <<root, thrown, watches>>

\* the change events: buffer, timer, emitter, clock
evVars == <<bufferedEvents, fireSoonHandle, timers, emissions, nQueued, windowStart, now>>

\* everything but the cache
notCacheVars == <<fsVars, provVars, evVars, rateVars, cmdVars>>

\* everything but the rate limiter
notRateVars == <<cacheVars, fsVars, provVars, evVars, cmdVars>>

\* everything but the command handlers
notCmdVars == <<cacheVars, fsVars, provVars, evVars, rateVars>>

vars == <<cacheVars, fsVars, provVars, evVars, rateVars, cmdVars>>

(***************************************************************************)
(* Map and array primitives, as JavaScript defines them.                   *)
(***************************************************************************)
Range(s) == {s[i] : i \in 1..Len(s)}

\* Map.prototype.get: undefined for a missing key
MapGet(m, k) == IF k \in DOMAIN m THEN m[k] ELSE undefined

\* Map.prototype.set
MapSet(m, k, v) == [x \in (DOMAIN m) \cup {k} |-> IF x = k THEN v ELSE m[x]]

\* Map.prototype.delete
MapDelete(m, k) == [x \in (DOMAIN m) \ {k} |-> m[x]]

EmptyMap == [x \in {} |-> undefined]

\* Array.prototype.findIndex(v => v === t), 0-based, -1 when absent
FindIndex(s, t) ==
  IF \E i \in 1..Len(s) : s[i] = t
  THEN (CHOOSE i \in 1..Len(s) : s[i] = t /\ \A j \in 1..(i - 1) : s[j] # t) - 1
  ELSE -1

\* the array after splice(start, 1); a negative start counts from the end
SpliceRest(s, start) ==
  LET at == IF start < 0 THEN (IF Len(s) + start < 0 THEN 0 ELSE Len(s) + start)
            ELSE (IF start > Len(s) THEN Len(s) ELSE start)
  IN IF at >= Len(s) THEN s
     ELSE SubSeq(s, 1, at) \o SubSeq(s, at + 2, Len(s))

\* splice(start, 1)[0]: the removed element, undefined when nothing is removed
SpliceRemoved(s, start) ==
  LET at == IF start < 0 THEN (IF Len(s) + start < 0 THEN 0 ELSE Len(s) + start)
            ELSE (IF start > Len(s) THEN Len(s) ELSE start)
  IN IF at >= Len(s) THEN undefined ELSE s[at + 1]

(***************************************************************************)
(* CachedOperation                                                         *)
(***************************************************************************)

\* line 427: the test that decides a cache hit
IsCacheHit(t) == MapGet(cached, t) # undefined

\* line 429: this.lru.push(this.lru.splice(this.lru.findIndex(v => v === t), 1)[0])
MoveToEnd(s, t) ==
  Append(SpliceRest(s, FindIndex(s, t)), SpliceRemoved(s, FindIndex(s, t)))

\* IsInProgress with the in-progress test dropped: every miss starts a production
IsInProgress_Never(t) == FALSE

\* no waiter is ever handed to the owner: the list of callbacks stays empty
Callbacks_None(t) == {}

\* lines 433-434: this.inProgressCallbacks.get(t) !== undefined; the map holds
\* arrays only, so the test is whether t is a key of the map
IsInProgress(t) == t \in DOMAIN inProgressCallbacks

\* line 448: the test that decides an eviction
MustEvict(s, size) == Len(s) > size

\* the call that invoked the producer for t and still awaits it (line 445)
Owner(t) ==
  {i \in 1..Len(calls) :
     calls[i].t = t /\ calls[i].role = "owner" /\ calls[i].st = "pending"}

\* lines 442-443: the array `callbacks` of the call that produces t, which is
\* the array registered under t until that call deletes the key
Callbacks(t) ==
  IF t \in DOMAIN inProgressCallbacks THEN Range(inProgressCallbacks[t]) ELSE {}

NewCall(t, role, st, out) == [t |-> t, role |-> role, st |-> st, out |-> out]

\* calls with every call of `ids` settled as st/out
Settle(ids, st, out) ==
  [i \in 1..Len(calls) |->
     IF i \in ids THEN [calls[i] EXCEPT !.st = st, !.out = out] ELSE calls[i]]

\* the history of accesses after key t is accessed: t becomes the most recent
Touch(s, t) == Append(SelectSeq(s, LAMBDA k : k # t), t)

\* the history of accesses after key t leaves the store
Forget(s, t) == SelectSeq(s, LAMBDA k : k # t)

\* lines 424-445 and, when the producer throws before returning a promise,
\* lines 455-461: one call of get(t) up to its first await.
\* syncThrow: "no" when this.operation(t) returns a promise, else the error
\* it throws synchronously.
get(t, syncThrow) ==
  /\ Len(calls) < MaxCalls
  /\ UNCHANGED notCacheVars
  /\ LET id == Len(calls) + 1
     IN IF IsCacheHit(t)
        THEN \* lines 427-431
             /\ syncThrow = "no"
             /\ lru' = MoveToEnd(lru, t)
             /\ calls' = Append(calls, NewCall(t, "hit", "resolved", MapGet(cached, t)))
             /\ recency' = Touch(recency, t)
             /\ UNCHANGED <<cacheSize, cached, inProgressCallbacks>>
        ELSE IF IsInProgress(t)
        THEN \* lines 434-439
             /\ syncThrow = "no"
             /\ inProgressCallbacks' =
                  MapSet(inProgressCallbacks, t, Append(inProgressCallbacks[t], id))
             /\ calls' = Append(calls, NewCall(t, "waiter", "pending", NoOutcome))
             /\ UNCHANGED <<cacheSize, cached, lru, recency>>
        ELSE IF syncThrow = "no"
        THEN \* lines 442-445: register, invoke the producer, await it
             /\ inProgressCallbacks' = MapSet(inProgressCallbacks, t, <<>>)
             /\ calls' = Append(calls, NewCall(t, "owner", "pending", NoOutcome))
             /\ UNCHANGED <<cacheSize, cached, lru, recency>>
        ELSE \* lines 442-445, 455-461: the producer throws; nobody has joined
             /\ inProgressCallbacks' = MapDelete(MapSet(inProgressCallbacks, t, <<>>), t)
             /\ calls' = Append(calls, NewCall(t, "owner", "rejected", syncThrow))
             /\ UNCHANGED <<cacheSize, cached, lru, recency>>

\* lines 445-454, 460: the producer's promise for t fulfils with result
operationResolved(t, result) ==
  /\ Owner(t) # {}
  /\ LET waiters == Callbacks(t)
         evict == MustEvict(lru, cacheSize)
         toRemove == Head(lru)
         lru1 == IF evict THEN Tail(lru) ELSE lru
         cached1 == IF evict THEN MapDelete(cached, toRemove) ELSE cached
     IN /\ calls' = Settle(waiters \cup Owner(t), "resolved", result)
        /\ inProgressCallbacks' = MapDelete(inProgressCallbacks, t)
        /\ lru' = Append(lru1, t)
        /\ cached' = MapSet(cached1, t, result)
        /\ recency' = Touch(IF evict THEN Forget(recency, toRemove) ELSE recency, t)
  /\ UNCHANGED cacheSize
  /\ UNCHANGED notCacheVars

\* lines 445, 455-461: the producer's promise for t rejects with e
operationRejected(t, e) ==
  /\ Owner(t) # {}
  /\ LET waiters == Callbacks(t)
     IN /\ calls' = Settle(waiters \cup Owner(t), "rejected", e)
        /\ inProgressCallbacks' = MapDelete(inProgressCallbacks, t)
  /\ UNCHANGED <<cacheSize, cached, lru, recency>>
  /\ UNCHANGED notCacheVars

\* lines 417-422: the state after new CachedOperation(operation, cacheSize)
CacheInit ==
  /\ cacheSize \in 1..MaxCacheSize
  /\ cached = EmptyMap
  /\ lru = <<>>
  /\ inProgressCallbacks = EmptyMap
  /\ calls = <<>>
  /\ recency = <<>>


(***************************************************************************)
(* ArchiveFileSystemProvider                                               *)
(***************************************************************************)

\* number of provider calls issued in one behaviour
MaxRequests == 2
\* number of entries of an archive
MaxEntries == 2

\* the uri.path values requested; only the first may exist on the host
ArchivePaths == {"/project.zip", "/missing.zip"}
\* the archives the host filesystem may hold
HostArchives == {"/project.zip"}
\* the paths recorded in archive entries (unzipper's f.path)
EntryPaths ==
  {"main.c", "src_archive/main.c", "src_archive//main.c", "src_archive/sub/main.c"}
\* the uri.fragment values requested; the last is no entry but a prefix of
\* entries, a directory of the archive
Fragments == {"main.c", "/main.c", "/src_archive/main.c", "src_archive"}

\* line 675: the constant prepended to the fragment
RootMarker == "src_archive/"

\* file.buffer(): the bytes of the entry recorded under path p
Content(p) == "bytes of " \o p

\* archive.files of an archive: entries with distinct paths, in listing order
Listings ==
  {l \in UNION {[1..n -> EntryPaths] : n \in 0..MaxEntries} :
     \A i, j \in 1..Len(l) : i # j => l[i] # l[j]}

Uri(path, fragment) == [path |-> path, fragment |-> fragment]

\* a promise: pending, fulfilled with a value, or rejected with a
\* vscode.FileSystemError (code and the uri it was built with)
Pending == [st |-> "pending", err |-> "none", uri |-> Uri("", ""), type |-> "none", name |-> "", data |-> ""]

Rejected(code, uri) ==
  [st |-> "rejected", err |-> code, uri |-> uri, type |-> "none", name |-> "", data |-> ""]

\* lines 584-597: new File(name, data)
File(name, data) ==
  [st |-> "fulfilled", err |-> "none", uri |-> Uri("", ""), type |-> "File", name |-> name, data |-> data]

\* line 670: fs.existsSync(uri.path)
existsSync(path) == path \in DOMAIN files

\* EntryMatches without the root-marker form
EntryMatches_BareOnly(fpath, fragment) == fpath = fragment

\* line 675: the predicate given to archive.files.find
EntryMatches(fpath, fragment) ==
  fpath = fragment \/ fpath = RootMarker \o fragment

\* line 675: archive.files.find(...): the index of the first entry the
\* predicate accepts, 0 for undefined
Find(listing, fragment) ==
  IF \E i \in 1..Len(listing) : EntryMatches(listing[i], fragment)
  THEN CHOOSE i \in 1..Len(listing) :
         /\ EntryMatches(listing[i], fragment)
         /\ \A j \in 1..(i - 1) : ~EntryMatches(listing[j], fragment)
  ELSE 0

\* lines 669-672: _lookup up to its first await: the promise it returns and
\* whether unzipper.Open.file was called
lookupStart(uri) ==
  IF ~existsSync(uri.path)
  THEN [pc |-> "rejected", opened |-> FALSE, entry |-> 0, res |-> Rejected("FileNotFound", uri)]
  ELSE [pc |-> "opening", opened |-> TRUE, entry |-> 0, res |-> Pending]

\* lines 625-627 (stat) and 641-647, 689-695 (readFile): what the caller's
\* promise settles with once the awaited _lookup promise has settled with lk.
\* While _lookup is pending so is the caller. stat returns the entry; readFile
\* returns its data when the entry is a File and rejects FileIsADirectory
\* otherwise. The data is the Buffer of line 678, an object, so the test of
\* line 643 always passes.
callerOutcome(op, uri, lk) ==
  IF lk.st = "pending" THEN Pending
  ELSE IF lk.st = "rejected" THEN lk
  ELSE IF op = "stat" THEN lk
  ELSE IF lk.type = "File"
       THEN [lk EXCEPT !.type = "bytes", !.name = ""]
       ELSE Rejected("FileIsADirectory", uri)

NewRequest(op, uri, out, lk) == [op |-> op, uri |-> uri, out |-> out, lk |-> lk]

\* lines 625-627, 669-672: stat(uri) up to the first await
stat(path, fragment) ==
  /\ Len(requests) < MaxRequests
  /\ LET uri == Uri(path, fragment)
         lk == lookupStart(uri)
     IN requests' = Append(requests,
          NewRequest("stat", uri, callerOutcome("stat", uri, lk.res), lk))
  /\ UNCHANGED <<files, helperVars, provVars, evVars>>

\* lines 641-647, 689-695, 669-672: readFile(uri) up to the first await
readFile(path, fragment) ==
  /\ Len(requests) < MaxRequests
  /\ LET uri == Uri(path, fragment)
         lk == lookupStart(uri)
     IN requests' = Append(requests,
          NewRequest("readFile", uri, callerOutcome("readFile", uri, lk.res), lk))
  /\ UNCHANGED <<files, helperVars, provVars, evVars>>

\* lines 681-687: _lookupAsDirectory tests the promise _lookup returned, which
\* is no Directory, and throws
lookupAsDirectory(uri) == Rejected("FileNotADirectory", uri)

\* lines 629-637, 681-687, 669-672: readDirectory(uri): _lookup is started and
\* not awaited, and the call throws
readDirectory(path, fragment) ==
  /\ Len(requests) < MaxRequests
  /\ LET uri == Uri(path, fragment)
         lk == lookupStart(uri)
     IN requests' = Append(requests,
          NewRequest("readDirectory", uri, lookupAsDirectory(uri), lk))
  /\ UNCHANGED <<files, helperVars, provVars, evVars>>

\* lines 672-678: unzipper.Open.file(uri.path) has fulfilled for request i:
\* find the entry, reject when there is none, else ask for its bytes
openResolved(i) ==
  /\ i \in 1..Len(requests)
  /\ requests[i].lk.pc = "opening"
  /\ LET r == requests[i]
         found == Find(files[r.uri.path], r.uri.fragment)
         lk == IF found = 0
               THEN [r.lk EXCEPT !.pc = "rejected", !.res = Rejected("FileNotFound", r.uri)]
               ELSE [r.lk EXCEPT !.pc = "buffering", !.entry = found]
         out == IF r.op = "readDirectory" THEN r.out
                ELSE callerOutcome(r.op, r.uri, lk.res)
     IN requests' = [requests EXCEPT ![i] = [r EXCEPT !.lk = lk, !.out = out]]
  /\ UNCHANGED <<files, helperVars, provVars, evVars>>

\* line 678: file.buffer() has fulfilled for request i: _lookup returns
\* new File(uri.fragment, bytes) and the awaiting caller settles
bufferResolved(i) ==
  /\ i \in 1..Len(requests)
  /\ requests[i].lk.pc = "buffering"
  /\ LET r == requests[i]
         res == File(r.uri.fragment, Content(files[r.uri.path][r.lk.entry]))
         lk == [r.lk EXCEPT !.pc = "fulfilled", !.res = res]
         out == IF r.op = "readDirectory" THEN r.out
                ELSE callerOutcome(r.op, r.uri, res)
     IN requests' = [requests EXCEPT ![i] = [r EXCEPT !.lk = lk, !.out = out]]
  /\ UNCHANGED <<files, helperVars, provVars, evVars>>

\* lines 599-612: new Directory(name)
Directory(name) == [type |-> "Directory", name |-> name, entries |-> EmptyMap]

\* lines 619-621, 704-706: the fields of a new ArchiveFileSystemProvider; the
\* clock starts at 0
ProviderInit ==
  /\ root = Directory("")
  /\ thrown = [op |-> "none", err |-> "none"]
  /\ watches = <<>>
  /\ bufferedEvents = <<>>
  /\ fireSoonHandle = 0
  /\ timers = {}
  /\ emissions = <<>>
  /\ nQueued = 0
  /\ windowStart = -1
  /\ now = 0

\* a provider with no call made, over a host holding no archive
FsIdle ==
  /\ files = [p \in {} |-> <<>>]
  /\ requests = <<>>
  /\ ProviderInit

\* line 745: a new provider, over a host holding any archives
FsInit ==
  /\ files \in UNION {[ps -> Listings] : ps \in SUBSET HostArchives}
  /\ requests = <<>>
  /\ ProviderInit

\* a cache nobody uses
CacheIdle ==
  /\ cacheSize = 1
  /\ cached = EmptyMap
  /\ lru = <<>>
  /\ inProgressCallbacks = EmptyMap
  /\ calls = <<>>
  /\ recency = <<>>

(***************************************************************************)
(* ArchiveFileSystemProvider: write operations, watch, change events       *)
(***************************************************************************)

\* number of calls of watch in one behaviour
MaxWatches == 1
\* number of calls of stat, readFile and readDirectory under SpecPublic
MaxPublicRequests == 1
\* number of calls of _fireSoon in one behaviour
MaxFires == 3
\* the clock stops at MaxTime
MaxTime == 12
\* line 725: the delay given to setTimeout, in milliseconds
Delay == 5
\* how many change records one call of _fireSoon(...events) passes
EventCounts == 0..2

\* the fragments of the uris given to the write operations and to watch, none
\* of which reads its uri
WriteFragments == {"/main.c"}

\* line 619: the one error every write operation throws
readOnlyError == "NoPermissions"

\* writeFile that reports the change to the watchers instead of refusing
writeFile_FiresChange(path, fragment) ==
  /\ nQueued = 0
  /\ bufferedEvents' = Append(bufferedEvents, nQueued + 1)
  /\ nQueued' = nQueued + 1
  /\ windowStart' = now
  /\ timers' = {[id |-> 1, due |-> now + 5]}
  /\ fireSoonHandle' = 1
  /\ UNCHANGED <<emissions, now, provVars, fsVars, helperVars>>

\* createDirectory that adds the directory to the tree instead of refusing
createDirectory_Creates(path, fragment) ==
  /\ root' = [root EXCEPT !.entries = MapSet(root.entries, fragment, "Directory")]
  /\ UNCHANGED <<thrown, watches, fsVars, evVars, helperVars>>

\* lines 651-653: writeFile(uri, content, options)
writeFile(path, fragment) ==
  /\ thrown' = [op |-> "writeFile", err |-> readOnlyError]
  /\ UNCHANGED <<root, watches, fsVars, evVars, helperVars>>

\* lines 655-657: rename(oldUri, newUri, options)
rename(path, fragment) ==
  /\ thrown' = [op |-> "rename", err |-> readOnlyError]
  /\ UNCHANGED <<root, watches, fsVars, evVars, helperVars>>

\* lines 659-661: delete(uri)
delete(path, fragment) ==
  /\ thrown' = [op |-> "delete", err |-> readOnlyError]
  /\ UNCHANGED <<root, watches, fsVars, evVars, helperVars>>

\* lines 663-665: createDirectory(uri)
createDirectory(path, fragment) ==
  /\ thrown' = [op |-> "createDirectory", err |-> readOnlyError]
  /\ UNCHANGED <<root, watches, fsVars, evVars, helperVars>>

\* lines 710-713: watch(_resource) returns a new Disposable
watch(path, fragment) ==
  /\ Len(watches) < MaxWatches
  /\ watches' = Append(watches, "live")
  /\ UNCHANGED <<root, thrown, fsVars, evVars, helperVars>>

\* line 712: dispose() of the i-th Disposable runs its callback, () => { }
disposeWatch(i) ==
  /\ i \in 1..Len(watches)
  /\ watches[i] = "live"
  /\ watches' = [watches EXCEPT ![i] = "disposed"]
  /\ UNCHANGED <<root, thrown, fsVars, evVars, helperVars>>

\* clearTimeout that cancels nothing
ClearTimeout_None(ts, handle) == ts

\* a timeout with no delay
TimerDue_Now(t) == t

\* an emission that carries the first buffered record only
FlushBatch_First(buffer) == IF buffer = <<>> THEN <<>> ELSE <<buffer[1]>>

\* lines 718-720: clearTimeout(this._fireSoonHandle) when the handle is set
ClearTimeout(ts, handle) == {tm \in ts : tm.id # handle}

\* line 725: when a timeout set at time t may run
TimerDue(t) == t + Delay

\* line 723: the argument of this._emitter.fire
FlushBatch(buffer) == buffer

\* lines 715-726: _fireSoon(...events) with n events, numbered as queued
fireSoon(n) ==
  /\ fireSoonHandle < MaxFires
  /\ bufferedEvents' = bufferedEvents \o [i \in 1..n |-> nQueued + i]
  /\ nQueued' = nQueued + n
  /\ windowStart' = IF bufferedEvents = <<>> /\ n > 0 THEN now ELSE windowStart
  /\ LET cleared == IF fireSoonHandle # 0
                    THEN ClearTimeout(timers, fireSoonHandle)
                    ELSE timers
         id == fireSoonHandle + 1
     IN /\ timers' = cleared \cup {[id |-> id, due |-> TimerDue(now)]}
        /\ fireSoonHandle' = id
  /\ UNCHANGED <<emissions, now, provVars, fsVars, helperVars>>

\* lines 722-725: the timeout's callback runs, at or after its due time
timerFired(id) ==
  /\ \E tm \in timers :
       /\ tm.id = id
       /\ now >= tm.due
       /\ timers' = timers \ {tm}
  /\ emissions' = Append(emissions, [time |-> now, batch |-> FlushBatch(bufferedEvents)])
  /\ bufferedEvents' = <<>>
  /\ windowStart' = -1
  /\ UNCHANGED <<fireSoonHandle, nQueued, now, provVars, fsVars, helperVars>>

\* a millisecond passes
tick ==
  /\ now < MaxTime
  /\ now' = now + 1
  /\ UNCHANGED <<bufferedEvents, fireSoonHandle, timers, emissions, nQueued, windowStart,
                 provVars, fsVars, helperVars>>

(***************************************************************************)
(* InvocationRateLimiter (lines 281-363)                                   *)
(***************************************************************************)

\* number of calls of invokeFunctionIfIntervalElapsed in one behaviour
MaxInvocations == 2
\* the clock takes the values 0, ClockStep, .., MaxClock * ClockStep
MaxClock == 2
\* milliseconds between two values of the clock
ClockStep == 500
\* the dates createDate() may answer, in milliseconds since the epoch
Dates == {k * ClockStep : k \in 0..MaxClock}
\* the values given as minSecondsSinceLastInvocation
Intervals == {0, 1, 2}
\* the values func resolves with
FuncResults == {"v1"}
\* the date of a call that read no stored date, and the stored field of a
\* call that has stored none
NoDate == -1

\* lines 313-314, 319: the one key of globalState that the limiters of one
\* function identifier read and write
StateKey == "invocationRateLimiter_lastInvocationDate_f"

\* line 319: what globalState keeps for a Date: its JSON form, the ISO string
\* of the date, which has millisecond precision
StoredDate(date) == [iso |-> date]

\* lines 286, 315: createDate(dateString) is new Date(dateString)
createDate(stored) == stored.iso

\* the date persisted for the function identifier, NoDate when there is none
Persisted(store) == IF StateKey \in DOMAIN store THEN store[StateKey].iso ELSE NoDate

\* lines 312-316: getLastInvocationDate(), NoDate for undefined
getLastInvocationDate ==
  IF StateKey \in DOMAIN globalState THEN createDate(globalState[StateKey]) ELSE NoDate

\* the test of lines 299-304 without lastInvocationDate <= updateCheckStartDate
IsRateLimited_NoFuture(m, last, start) ==
  /\ m # 0
  /\ last # NoDate
  /\ last + m * 1000 > start

\* lines 299-304: the test that decides RateLimited. A number is falsy when it
\* is 0, a Date never is.
IsRateLimited(m, last, start) ==
  /\ m # 0
  /\ last # NoDate
  /\ last <= start
  /\ last + m * 1000 > start

NewInvocation(m, start, last, pc, kind) ==
  [m |-> m, start |-> start, last |-> last, pc |-> pc, kind |-> kind,
   funcCalls |-> IF pc = "func" THEN 1 ELSE 0, result |-> "none", stored |-> NoDate]

\* lines 296-306: invokeFunctionIfIntervalElapsed(m) up to its return of
\* RateLimited or to the await of func()
invokeFunctionIfIntervalElapsed(m) ==
  /\ Len(invocations) < MaxInvocations
  /\ LET updateCheckStartDate == clock
         lastInvocationDate == getLastInvocationDate
     IN invocations' = Append(invocations,
          IF IsRateLimited(m, lastInvocationDate, updateCheckStartDate)
          THEN NewInvocation(m, updateCheckStartDate, lastInvocationDate, "done", "RateLimited")
          ELSE NewInvocation(m, updateCheckStartDate, lastInvocationDate, "func", "pending"))
  /\ UNCHANGED <<globalState, clock, notRateVars>>

\* lines 306-307, 318-320: func() has fulfilled for call i, which calls
\* globalState.update with its start date and awaits it
funcResolved(i, result) ==
  /\ i \in 1..Len(invocations)
  /\ invocations[i].pc = "func"
  /\ globalState' = MapSet(globalState, StateKey, StoredDate(invocations[i].start))
  /\ invocations' = [invocations EXCEPT ![i].pc = "update", ![i].result = result,
                                         ![i].stored = invocations[i].start]
  /\ UNCHANGED <<clock, notRateVars>>

\* funcRejected of a limiter that stores its start date on failure as well
funcRejected_Stores(i, e) ==
  /\ i \in 1..Len(invocations)
  /\ invocations[i].pc = "func"
  /\ globalState' = MapSet(globalState, StateKey, StoredDate(invocations[i].start))
  /\ invocations' = [invocations EXCEPT ![i].pc = "done", ![i].kind = "rejected",
                                         ![i].result = e]
  /\ UNCHANGED <<clock, notRateVars>>

\* line 306: func() has rejected for call i: the call rejects with the error
funcRejected(i, e) ==
  /\ i \in 1..Len(invocations)
  /\ invocations[i].pc = "func"
  /\ invocations' = [invocations EXCEPT ![i].pc = "done", ![i].kind = "rejected",
                                         ![i].result = e]
  /\ UNCHANGED <<globalState, clock, notRateVars>>

\* lines 307-308: globalState.update has fulfilled for call i, which returns
\* createInvokedResult(result)
updateResolved(i) ==
  /\ i \in 1..Len(invocations)
  /\ invocations[i].pc = "update"
  /\ invocations' = [invocations EXCEPT ![i].pc = "done", ![i].kind = "Invoked"]
  /\ UNCHANGED <<globalState, clock, notRateVars>>

\* the host's clock changes; it may be set back
setClock(d) ==
  /\ d # clock
  /\ clock' = d
  /\ UNCHANGED <<globalState, invocations, notRateVars>>

\* the host's clock moves forward
advanceClock(d) ==
  /\ d > clock
  /\ setClock(d)

\* lines 282-291: new limiters over a store that holds a date or none
RateInit ==
  /\ globalState \in {EmptyMap} \cup {(StateKey :> StoredDate(d)) : d \in Dates}
  /\ clock \in Dates
  /\ invocations = <<>>

\* a limiter nobody uses
RateIdle ==
  /\ globalState = EmptyMap
  /\ clock = 0
  /\ invocations = <<>>

(***************************************************************************)
(* commandRunner and commandRunnerWithProgress (lines 109-179)             *)
(***************************************************************************)

\* number of calls of the registered handlers in one behaviour
MaxCommands == 2

\* the two wrappers that register a handler
Runners == {"commandRunner", "commandRunnerWithProgress"}

\* the values a task fulfils with
TaskResults == {"r1", undefined}

\* lines 18-26: new UserCancellationException(message, silent)
SilentCancellation == "UserCancellationException(silent)"
Cancellation == "UserCancellationException"

\* the values a task throws or rejects with: the two cancellations, an Error,
\* a string, and undefined (a promise rejected with no reason)
TaskErrors == {SilentCancellation, Cancellation, "Error", "string", undefined}

\* lines 127, 166: e.message can be read of every value but undefined and
\* null, of which it throws a TypeError
CanReadMessage(e) == e # undefined

\* lines 128, 167: e instanceof UserCancellationException
IsUserCancellation(e) == e \in {SilentCancellation, Cancellation}

\* lines 130, 169: e.silent
IsSilent(e) == e = SilentCancellation

\* a report of call i: whether it was logged, and how it was shown
Report(i, shown) == [call |-> i, logged |-> TRUE, shown |-> shown]

\* lines 131, 190-215, 229-237: logger.log logs only; showAndLogWarningMessage
\* and showAndLogErrorMessage log and then show
ReportsOf(i, e) ==
  IF IsUserCancellation(e)
  THEN IF IsSilent(e) THEN <<Report(i, "none")>> ELSE <<Report(i, "warning")>>
  ELSE <<Report(i, "error")>>

\* lines 126-138, 165-177: the catch block of the handler for error e: the
\* promise of the handler after it
CatchOutcome(e) ==
  IF CanReadMessage(e)
  THEN [st |-> "resolved", out |-> undefined]
  ELSE [st |-> "rejected", out |-> "TypeError"]

NewHandlerCall(runner, pc, task, res) ==
  [runner |-> runner, pc |-> pc, task |-> task,
   st |-> res.st, out |-> res.out]

\* lines 113-125, 152-164: the handler is called and calls the task (through
\* withProgress for commandRunnerWithProgress); the task returns a promise,
\* or throws syncThrow inside the try block
handler(runner, syncThrow) ==
  /\ Len(handlerCalls) < MaxCommands
  /\ LET i == Len(handlerCalls) + 1
     IN IF syncThrow = "no"
        THEN /\ handlerCalls' = Append(handlerCalls,
                  NewHandlerCall(runner, "task", [st |-> "pending", v |-> "none"],
                                 [st |-> "pending", out |-> "none"]))
             /\ UNCHANGED reports
        ELSE /\ handlerCalls' = Append(handlerCalls,
                  NewHandlerCall(runner, "done", [st |-> "rejected", v |-> syncThrow],
                                 CatchOutcome(syncThrow)))
             /\ reports' = IF CanReadMessage(syncThrow)
                           THEN reports \o ReportsOf(i, syncThrow)
                           ELSE reports
  /\ UNCHANGED notCmdVars

\* lines 125, 164: the task's promise has fulfilled for call i
taskResolved(i, result) ==
  /\ i \in 1..Len(handlerCalls)
  /\ handlerCalls[i].pc = "task"
  /\ handlerCalls' = [handlerCalls EXCEPT ![i] =
       NewHandlerCall(handlerCalls[i].runner, "done", [st |-> "resolved", v |-> result],
                      [st |-> "resolved", out |-> result])]
  /\ UNCHANGED reports
  /\ UNCHANGED notCmdVars

\* lines 126-138, 165-177: the task's promise has rejected with e for call i
taskRejected(i, e) ==
  /\ i \in 1..Len(handlerCalls)
  /\ handlerCalls[i].pc = "task"
  /\ handlerCalls' = [handlerCalls EXCEPT ![i] =
       NewHandlerCall(handlerCalls[i].runner, "done", [st |-> "rejected", v |-> e],
                      CatchOutcome(e))]
  /\ reports' = IF CanReadMessage(e) THEN reports \o ReportsOf(i, e) ELSE reports
  /\ UNCHANGED notCmdVars

\* no handler was called
CommandIdle ==
  /\ handlerCalls = <<>>
  /\ reports = <<>>

(***************************************************************************)
(* Specifications                                                          *)
(***************************************************************************)
Init == CacheInit /\ FsIdle /\ RateIdle /\ CommandIdle

Next ==
  \/ \E t \in Keys, syncThrow \in {"no"} \cup Errors : get(t, syncThrow)
  \/ \E t \in Keys, result \in Results : operationResolved(t, result)
  \/ \E t \in Keys, e \in Errors : operationRejected(t, e)

\* the cache under any calls of get and any outcomes of the producer
Spec == Init /\ [][Next]_vars

InitFS == FsInit /\ CacheIdle /\ RateIdle /\ CommandIdle

NextFS ==
  \/ \E path \in ArchivePaths, fragment \in Fragments : stat(path, fragment)
  \/ \E path \in ArchivePaths, fragment \in Fragments : readFile(path, fragment)
  \/ \E path \in ArchivePaths, fragment \in Fragments : readDirectory(path, fragment)
  \/ \E i \in 1..MaxRequests : openResolved(i)
  \/ \E i \in 1..MaxRequests : bufferResolved(i)

\* the provider under any calls of stat, readFile and readDirectory
SpecFS == InitFS /\ [][NextFS]_vars

\* the calls of stat, readFile and readDirectory are few under SpecPublic
CanCall == Len(requests) < MaxPublicRequests

NextPublic ==
  \/ \E path \in ArchivePaths, fragment \in Fragments : CanCall /\ stat(path, fragment)
  \/ \E path \in ArchivePaths, fragment \in Fragments : CanCall /\ readFile(path, fragment)
  \/ \E path \in ArchivePaths, fragment \in Fragments : CanCall /\ readDirectory(path, fragment)
  \/ \E i \in 1..MaxRequests : openResolved(i)
  \/ \E i \in 1..MaxRequests : bufferResolved(i)
  \/ \E path \in ArchivePaths, fragment \in WriteFragments : writeFile(path, fragment)
  \/ \E path \in ArchivePaths, fragment \in WriteFragments : rename(path, fragment)
  \/ \E path \in ArchivePaths, fragment \in WriteFragments : delete(path, fragment)
  \/ \E path \in ArchivePaths, fragment \in WriteFragments : createDirectory(path, fragment)
  \/ \E path \in ArchivePaths, fragment \in WriteFragments : watch(path, fragment)
  \/ \E i \in 1..MaxWatches : disposeWatch(i)

\* the provider under any calls of all its public operations and any disposal
\* of the handles watch returned
SpecPublic == InitFS /\ [][NextPublic]_vars

InitEvents == FsIdle /\ CacheIdle /\ RateIdle /\ CommandIdle

NextEvents ==
  \/ \E n \in EventCounts : fireSoon(n)
  \/ \E id \in 1..MaxFires : timerFired(id)
  \/ tick
  \/ \E path \in ArchivePaths, fragment \in WriteFragments : writeFile(path, fragment)
  \/ \E path \in ArchivePaths, fragment \in WriteFragments : rename(path, fragment)
  \/ \E path \in ArchivePaths, fragment \in WriteFragments : delete(path, fragment)
  \/ \E path \in ArchivePaths, fragment \in WriteFragments : createDirectory(path, fragment)

\* the provider's change events under any calls of _fireSoon, any timing of
\* the timeout, and any calls of the write operations
SpecEvents == InitEvents /\ [][NextEvents]_vars

InitRate == RateInit /\ CacheIdle /\ FsIdle /\ CommandIdle

NextRate ==
  \/ \E m \in Intervals : invokeFunctionIfIntervalElapsed(m)
  \/ \E i \in 1..MaxInvocations, result \in FuncResults : funcResolved(i, result)
  \/ \E i \in 1..MaxInvocations, e \in Errors : funcRejected(i, e)
  \/ \E i \in 1..MaxInvocations : updateResolved(i)
  \/ \E d \in Dates : setClock(d)

\* limiters of one function identifier over one store, under any calls, any
\* outcomes of func and any clock
SpecRate == InitRate /\ [][NextRate]_vars

\* the store holds no date of the future
InitRateMonotone == InitRate /\ Persisted(globalState) <= clock

NextRateMonotone ==
  \/ \E m \in Intervals : invokeFunctionIfIntervalElapsed(m)
  \/ \E i \in 1..MaxInvocations, result \in FuncResults : funcResolved(i, result)
  \/ \E i \in 1..MaxInvocations, e \in Errors : funcRejected(i, e)
  \/ \E i \in 1..MaxInvocations : updateResolved(i)
  \/ \E d \in Dates : advanceClock(d)

\* the limiters under a clock that never goes back
SpecRateMonotone == InitRateMonotone /\ [][NextRateMonotone]_vars

InitCommands == CommandIdle /\ CacheIdle /\ FsIdle /\ RateIdle

NextCommands ==
  \/ \E runner \in Runners, syncThrow \in {"no"} \cup TaskErrors : handler(runner, syncThrow)
  \/ \E i \in 1..MaxCommands, result \in TaskResults : taskResolved(i, result)
  \/ \E i \in 1..MaxCommands, e \in TaskErrors : taskRejected(i, e)

\* the registered handlers under any calls and any outcomes of their tasks
SpecCommands == InitCommands /\ [][NextCommands]_vars

(***************************************************************************)
(* Properties of CachedOperation (checked under Spec)                      *)
(***************************************************************************)

\* the calls of get(t) that have not settled
PendingCalls(t) ==
  {i \in 1..Len(calls) : calls[i].t = t /\ calls[i].st = "pending"}

\* how many times this.operation(t) has been called (line 445)
Invocations(t) ==
  Cardinality({i \in 1..Len(calls) : calls[i].t = t /\ calls[i].role = "owner"})

\* the step is a call of get(t)
IsGetStep(t) == Len(calls') = Len(calls) + 1 /\ calls'[Len(calls')].t = t

C1_Step ==
  \A t \in Keys :
    /\ Owner(t) # {} => Invocations(t)' = Invocations(t)
    /\ (Owner(t) # {} /\ IsGetStep(t)) => calls'[Len(calls')].st = "pending"
    /\ (\E i \in PendingCalls(t) : calls'[i].st # "pending") =>
         \A i, j \in PendingCalls(t) :
           /\ calls'[i].st # "pending"
           /\ calls'[i].st = calls'[j].st
           /\ calls'[i].out = calls'[j].out

\* C1: single flight. At no time are two producer invocations for one key
\* outstanding; while one is outstanding, a call of get for that key does not
\* invoke the producer and stays pending; and when the production settles,
\* every pending call for the key settles in that step with the same outcome
\* (all resolved with one value, or all rejected with one error).
C1_SingleFlight ==
  /\ [](\A t \in Keys : Cardinality(Owner(t)) <= 1)
  /\ [][C1_Step]_vars

\* C1 witness: three calls for one key shared one producer invocation and all
\* resolved with the same value.
C1_Witness ==
  \E t \in Keys : \E i, j, k \in 1..Len(calls) :
    /\ i < j /\ j < k
    /\ calls[i].t = t /\ calls[j].t = t /\ calls[k].t = t
    /\ calls[i].role = "owner" /\ calls[j].role = "waiter" /\ calls[k].role = "waiter"
    /\ calls[i].st = "resolved" /\ calls[j].st = "resolved" /\ calls[k].st = "resolved"
    /\ calls[i].out = calls[j].out /\ calls[j].out = calls[k].out
    /\ Invocations(t) = 1

\* the producer's promise for t rejects in this step
IsRejectStep(t) ==
  \E i \in Owner(t) : calls'[i].st = "rejected"

\* C2 (as claimed): after the producer rejects for k, k is absent from the
\* value store and from the recency list; and a get(k) that follows a failed
\* production invokes the producer again.
C2_FailureNotMemoized ==
  [][\A t \in Keys :
       /\ IsRejectStep(t) =>
            (t \notin DOMAIN cached' /\ t \notin Range(lru'))
       /\ ( /\ PendingCalls(t) = {}
            /\ \E i \in 1..Len(calls) :
                 /\ calls[i].t = t /\ calls[i].st = "rejected"
                 /\ \A j \in (i + 1)..Len(calls) : calls[j].t # t
            /\ IsGetStep(t) )
          => Invocations(t)' = Invocations(t) + 1
    ]_vars

\* C3 (as claimed): once a get(k) has resolved and k is still in the value
\* store, a get(k) returns the memoized value, does not invoke the producer,
\* and moves k to the end of the recency list, the other keys keeping their
\* relative order.
C3_HitReturnsMemoized ==
  [][\A t \in Keys :
       ( /\ t \in DOMAIN cached
         /\ \E i \in 1..Len(calls) : calls[i].t = t /\ calls[i].st = "resolved"
         /\ IsGetStep(t) )
       => /\ Invocations(t)' = Invocations(t)
          /\ calls'[Len(calls')].st = "resolved"
          /\ calls'[Len(calls')].out = cached[t]
          /\ lru' = Append(SelectSeq(lru, LAMBDA x : x # t), t)
          /\ cached' = cached
    ]_vars

\* C4 (as claimed): when the store holds cacheSize keys and one more distinct
\* key is produced and inserted, exactly the least recently used key (the
\* head of the recency list) is evicted, so that a later get on it is a miss.
C4_EvictsOnOverflow ==
  [][\A t \in Keys :
       ( /\ Cardinality(DOMAIN cached) = cacheSize
         /\ t \notin DOMAIN cached
         /\ t \in DOMAIN cached' )
       => /\ lru # <<>>
          /\ DOMAIN cached' = ((DOMAIN cached) \ {Head(lru)}) \cup {t}
          /\ Head(lru) \notin Range(lru')
    ]_vars

\* C5 (as claimed): the number of memoized keys and the length of the recency
\* list never exceed the capacity given at construction.
C5_CapacityBound ==
  /\ Cardinality(DOMAIN cached) <= cacheSize
  /\ Len(lru) <= cacheSize

\* C6 (as claimed): the recency list holds each memoized key exactly once and
\* no key that is not memoized.
C6_RecencyMatchesStore ==
  /\ Range(lru) = DOMAIN cached
  /\ \A i, j \in 1..Len(lru) : i # j => lru[i] # lru[j]

(***************************************************************************)
(* Properties of ArchiveFileSystemProvider (checked under SpecFS)          *)
(***************************************************************************)

\* how many times unzipper.Open.file(path) has been called (line 672)
Opens(path) ==
  Cardinality({i \in 1..Len(requests) :
                 requests[i].uri.path = path /\ requests[i].lk.opened})

\* C7 (as claimed): all the calls whose uri carries one archive path cause one
\* open of that archive, concurrent or later.
C7_OneOpenPerArchive ==
  \A path \in ArchivePaths : Opens(path) <= 1

\* C8 (as claimed): over an archive listing src_archive/main.c, readFile with
\* fragment /main.c and readFile with fragment /src_archive/main.c both
\* succeed with the bytes of that entry.
C8_DualForm ==
  \A i \in 1..Len(requests) :
    LET r == requests[i]
    IN ( /\ r.op = "readFile"
         /\ r.uri.path \in DOMAIN files
         /\ "src_archive/main.c" \in Range(files[r.uri.path])
         /\ r.uri.fragment \in {"/main.c", "/src_archive/main.c"}
         /\ r.lk.pc \in {"fulfilled", "rejected"} )
       => /\ r.out.st = "fulfilled"
          /\ r.out.data = Content("src_archive/main.c")

\* the entries whose recorded path is the fragment, or the root marker
\* followed by the fragment
MatchingEntries(listing, fragment) ==
  {i \in 1..Len(listing) :
     listing[i] = fragment \/ listing[i] = "src_archive/" \o fragment}

Least(S) == CHOOSE i \in S : \A j \in S : i <= j

\* C9: for an existing archive, a settled _lookup has resolved to a File named
\* by the fragment and holding the bytes of the first entry, in listing
\* order, whose path is the fragment or src_archive/ followed by the
\* fragment; when no entry matches it has failed with FileNotFound carrying
\* the uri.
C9_EntryResolution ==
  \A i \in 1..Len(requests) :
    LET r == requests[i]
    IN (r.uri.path \in DOMAIN files /\ r.lk.pc \in {"fulfilled", "rejected"})
       => LET m == MatchingEntries(files[r.uri.path], r.uri.fragment)
          IN IF m = {}
             THEN r.lk.res = Rejected("FileNotFound", r.uri)
             ELSE /\ r.lk.res.st = "fulfilled"
                  /\ r.lk.res.type = "File"
                  /\ r.lk.res.name = r.uri.fragment
                  /\ r.lk.res.data = Content(files[r.uri.path][Least(m)])

\* C9 witness: one lookup resolved through the root-marker form although a
\* later entry matches the bare form, and another lookup in the same archive
\* failed with FileNotFound.
C9_Witness ==
  \E i, j \in 1..Len(requests) :
    LET r == requests[i]
        q == requests[j]
    IN /\ r.uri.path \in DOMAIN files
       /\ r.lk.pc = "fulfilled"
       /\ Cardinality(MatchingEntries(files[r.uri.path], r.uri.fragment)) = 2
       /\ r.lk.res.data = Content("src_archive/" \o r.uri.fragment)
       /\ q.uri.path = r.uri.path
       /\ q.lk.pc = "rejected"
       /\ q.lk.res.err = "FileNotFound"

\* C10 (as claimed): every stat, readFile and readDirectory on a uri whose
\* archive path does not exist fails with FileNotFound for that uri, and
\* opens no archive.
C10_ArchiveNotFound ==
  \A i \in 1..Len(requests) :
    LET r == requests[i]
    IN r.uri.path \notin DOMAIN files
       => /\ r.out = Rejected("FileNotFound", r.uri)
          /\ ~r.lk.opened

(***************************************************************************)
(* Properties of the write operations (checked under SpecEvents)           *)
(***************************************************************************)

WriteOps == {"writeFile", "rename", "delete", "createDirectory"}

\* a step that is no call of _fireSoon, no run of the timeout and no passing
\* of time: under SpecEvents, a call of a write operation
IsWriteStep ==
  /\ fireSoonHandle' = fireSoonHandle
  /\ emissions' = emissions
  /\ now' = now

\* C11: every call of writeFile, rename, delete or createDirectory throws
\* NoPermissions and leaves the entry tree, the buffered events and the
\* timeouts as they were, in any state of the buffer and the timer.
C11_ReadOnly ==
  [][IsWriteStep =>
       /\ thrown'.op \in WriteOps
       /\ thrown'.err = "NoPermissions"
       /\ root' = root
       /\ bufferedEvents' = bufferedEvents
       /\ timers' = timers
       /\ nQueued' = nQueued]_vars

\* C11 witness: createDirectory has thrown while records were buffered and a
\* timeout was pending, after an earlier batch had been emitted
C11_Witness ==
  /\ thrown = [op |-> "createDirectory", err |-> "NoPermissions"]
  /\ bufferedEvents # <<>>
  /\ timers # {}
  /\ emissions # <<>>

(***************************************************************************)
(* Properties of directories (checked under SpecFS)                        *)
(***************************************************************************)

\* the names of the entries at one level of an archive
Names == {"main.c", "sub"}

\* the prefixes that the entries below directory fragment carry, in the bare
\* form and in the root-marker form
DirPrefixes(fragment) == {fragment \o "/", RootMarker \o fragment \o "/"}

\* the immediate children of directory fragment that are files
FileChildren(listing, fragment) ==
  {n \in Names : \E p \in DirPrefixes(fragment) : p \o n \in Range(listing)}

\* the immediate children of directory fragment that are directories
DirChildren(listing, fragment) ==
  {n \in Names : \E p \in DirPrefixes(fragment), m \in Names :
     p \o n \o "/" \o m \in Range(listing)}

\* fragment is a directory of the archive: no entry, and a path prefix of
\* entries
IsDirectoryOf(listing, fragment) ==
  /\ Find(listing, fragment) = 0
  /\ FileChildren(listing, fragment) \cup DirChildren(listing, fragment) # {}

\* the (childName, childType) pairs of directory fragment
Children(listing, fragment) ==
  {<<n, "File">> : n \in FileChildren(listing, fragment)}
    \cup {<<n, "Directory">> : n \in DirChildren(listing, fragment)}

Settled(r) == r.out.st # "pending" /\ r.lk.pc \in {"fulfilled", "rejected"}

\* C12 (as claimed): over an existing archive, readFile on a uri that names a
\* directory is rejected with FileIsADirectory, and readDirectory on a uri
\* that names a file is rejected with FileNotADirectory.
C12_WrongEntryType ==
  \A i \in 1..Len(requests) :
    LET r == requests[i]
    IN (Settled(r) /\ existsSync(r.uri.path)) =>
         /\ (r.op = "readFile" /\ IsDirectoryOf(files[r.uri.path], r.uri.fragment))
              => (r.out.st = "rejected" /\ r.out.err = "FileIsADirectory")
         /\ (r.op = "readDirectory" /\ Find(files[r.uri.path], r.uri.fragment) # 0)
              => (r.out.st = "rejected" /\ r.out.err = "FileNotADirectory")

\* C13 (as claimed): over an existing archive, readDirectory on a uri that
\* names a directory is fulfilled with the (childName, childType) pairs of
\* the directory's immediate children and nothing else.
C13_DirectoryListing ==
  \A i \in 1..Len(requests) :
    LET r == requests[i]
    IN (/\ Settled(r)
        /\ r.op = "readDirectory"
        /\ existsSync(r.uri.path)
        /\ IsDirectoryOf(files[r.uri.path], r.uri.fragment))
       => /\ r.out.st = "fulfilled"
          /\ r.out.type = "entries"
          /\ r.out.data = Children(files[r.uri.path], r.uri.fragment)

(***************************************************************************)
(* Properties of the change events (checked under SpecEvents)              *)
(***************************************************************************)

RECURSIVE Batches(_)
\* the records of the emissions es, in the order they were emitted
Batches(es) == IF es = <<>> THEN <<>> ELSE es[1].batch \o Batches(Tail(es))

\* the records numbered from + 1 .. to, in queue order
Records(from, to) == [i \in 1..(to - from) |-> from + i]

\* C14: a call of _fireSoon emits nothing, and the run of the timeout adds
\* one emission whose batch is every record queued since the emission before
\* it, in queue order: records queued within one window leave as one batch.
C14_Batching ==
  [][/\ fireSoonHandle' # fireSoonHandle => emissions' = emissions
     /\ emissions' # emissions =>
          /\ Len(emissions') = Len(emissions) + 1
          /\ SubSeq(emissions', 1, Len(emissions)) = emissions
          /\ emissions'[Len(emissions')].batch =
               Records(Len(Batches(emissions)), nQueued)]_vars

\* C14 witness: three calls of _fireSoon with one record each, and then one
\* emission with the three records
C14_Witness ==
  /\ fireSoonHandle = 3
  /\ Len(emissions) = 1
  /\ emissions[1].batch = <<1, 2, 3>>
  /\ timers = {}

\* at most one timeout is pending; the records emitted so far followed by
\* the buffered ones are the records queued, each once and in order; and
\* buffered records have a timeout pending that will emit them
SingleTimerNoLoss ==
  /\ Cardinality(timers) <= 1
  /\ Batches(emissions) \o bufferedEvents = Records(0, nQueued)
  /\ bufferedEvents # <<>> => timers # {}

\* C15: at most one flush timeout is pending in every reachable state, the
\* run of the timeout emits the whole buffer as one event and leaves the
\* buffer empty, and every queued record is emitted once or is still
\* buffered with a timeout pending: none is dropped, none emitted twice.
C15_SingleTimerNoLoss ==
  /\ []SingleTimerNoLoss
  /\ [][emissions' # emissions =>
          /\ emissions' = Append(emissions, [time |-> now, batch |-> bufferedEvents])
          /\ bufferedEvents' = <<>>
          /\ timers' = {}]_vars

\* C15 witness: a second call of _fireSoon replaced the pending timeout, two
\* records are buffered behind an emitted batch of two
C15_Witness ==
  /\ fireSoonHandle = 3
  /\ Cardinality(timers) = 1
  /\ Len(emissions) = 1
  /\ emissions[1].batch = <<1, 2>>
  /\ bufferedEvents = <<3, 4>>

\* C16: any two consecutive emissions are at least Delay milliseconds apart.
C16_EmissionGap ==
  \A i \in 1..(Len(emissions) - 1) :
    emissions[i + 1].time - emissions[i].time >= 5

\* C16 witness: two emissions exactly 5 ms apart, the second call of
\* _fireSoon made right after the first emission
C16_Witness ==
  /\ Len(emissions) = 2
  /\ emissions[2].time - emissions[1].time = 5
  /\ emissions[2].batch # <<>>

(***************************************************************************)
(* Properties of CachedOperation: eviction order and in-flight bookkeeping *)
(* (checked under Spec)                                                    *)
(***************************************************************************)

\* the step is the fulfilment of a production that evicts (lines 448-451)
IsEvictStep ==
  /\ Len(calls') = Len(calls)
  /\ lru' # lru
  /\ MustEvict(lru, cacheSize)

\* C17 (as claimed): whenever a key is evicted, it is the memoized key whose
\* most recent access (insertion or hit) is the oldest of all memoized keys.
C17_EvictsLeastRecent ==
  [][IsEvictStep => (recency # <<>> /\ Head(lru) = Head(recency))]_vars

\* the calls that joined a production of t and are still pending
PendingWaiters(t) ==
  {i \in PendingCalls(t) : calls[i].role = "waiter"}

\* t is registered exactly while a production of t is outstanding, and the
\* pending waiters of t are the callbacks registered under t
InFlightBookkeeping ==
  \A t \in Keys :
    /\ t \in DOMAIN inProgressCallbacks <=> Owner(t) # {}
    /\ PendingWaiters(t) = Callbacks(t)
    /\ PendingCalls(t) # {} => Owner(t) # {}

\* the step in which the outstanding production of t settles
IsSettleStep(t) == Owner(t) # {} /\ Owner(t)' = {}

\* C18: a key is in inProgressCallbacks exactly while a production for it is
\* outstanding; the step in which the production settles, by success or by
\* failure, removes the key and settles every call registered for it, so no
\* call stays pending once the production has settled and no waiter is
\* registered on a list that nobody will settle.
C18_InFlightBookkeeping ==
  /\ []InFlightBookkeeping
  /\ [][\A t \in Keys :
          /\ IsSettleStep(t) =>
               /\ t \notin DOMAIN inProgressCallbacks'
               /\ PendingCalls(t)' = {}
          /\ (IsGetStep(t) /\ calls'[Len(calls')].st = "pending") =>
               t \in DOMAIN inProgressCallbacks']_vars

\* C18 witness: a production with two waiters was rejected, all three calls
\* are rejected and the key is registered no more
C18_Witness ==
  /\ Len(calls) >= 3
  /\ \A i \in 1..3 : calls[i].t = "a" /\ calls[i].st = "rejected"
  /\ calls[1].role = "owner" /\ calls[2].role = "waiter" /\ calls[3].role = "waiter"
  /\ "a" \notin DOMAIN inProgressCallbacks

(***************************************************************************)
(* Properties of watch (checked under SpecPublic)                          *)
(***************************************************************************)

\* no change record was ever queued, no timeout set, nothing emitted
NothingQueued ==
  /\ nQueued = 0
  /\ bufferedEvents = <<>>
  /\ fireSoonHandle = 0
  /\ timers = {}
  /\ emissions = <<>>

\* C19: no sequence of calls of stat, readDirectory, readFile, watch,
\* writeFile, rename, delete and createDirectory and of disposals of watch
\* handles queues a change record or emits on onDidChangeFile; and the
\* disposal of a handle changes nothing of the provider.
C19_WatchNeverFires ==
  /\ []NothingQueued
  /\ [][watches' # watches => UNCHANGED <<root, thrown, fsVars, evVars>>]_vars

\* C19 witness: a handle was returned and disposed, a write operation was
\* refused and a file was read, all on one provider
C19_Witness ==
  /\ watches = <<"disposed">>
  /\ thrown.op = "writeFile"
  /\ Len(requests) = 1
  /\ requests[1].op = "readFile"
  /\ requests[1].out.st = "fulfilled"

(***************************************************************************)
(* Properties of InvocationRateLimiter (checked under SpecRate)            *)
(***************************************************************************)

\* the rule as claimed: m is non-zero, last exists, last <= now and
\* last + m seconds > now
MustLimit(m, last, current) ==
  m # 0 /\ last # NoDate /\ last <= current /\ last + m * 1000 > current

\* the step is a call of invokeFunctionIfIntervalElapsed
IsInvokeStep == Len(invocations') = Len(invocations) + 1

\* a call that returned RateLimited never invoked func, every other call
\* invoked it once, and a call that returned Invoked had stored its start date
RateRecords ==
  \A i \in 1..Len(invocations) :
    LET r == invocations[i]
    IN /\ r.kind = "RateLimited" <=> MustLimit(r.m, r.last, r.start)
       /\ r.funcCalls = (IF r.kind = "RateLimited" THEN 0 ELSE 1)
       /\ r.kind = "Invoked" => (r.stored = r.start /\ r.result \in FuncResults)
       /\ r.kind = "RateLimited" => r.stored = NoDate

\* what a step does to the calls of the limiter
RateStep ==
  /\ IsInvokeStep =>
       LET r == invocations'[Len(invocations')]
       IN /\ r.start = clock
          /\ r.kind = "RateLimited" <=> MustLimit(r.m, Persisted(globalState), clock)
          /\ r.kind # "RateLimited" => (r.kind = "pending" /\ r.funcCalls = 1)
          /\ globalState' = globalState
  /\ \A i \in 1..Len(invocations) :
       (invocations[i].pc = "func" /\ invocations'[i].pc = "update") =>
         /\ Persisted(globalState') = invocations[i].start
         /\ invocations'[i].result \in FuncResults
  /\ \A i \in 1..Len(invocations) :
       (invocations[i].kind # "Invoked" /\ invocations'[i].kind = "Invoked") =>
         /\ invocations[i].pc = "update"
         /\ invocations'[i].result = invocations[i].result

\* C20: a call returns RateLimited without invoking func exactly when m is
\* non-zero, a last-invocation date is persisted, it is not after the date
\* read at the start of the call and less than m seconds before it; every
\* other call invokes func once and, when func fulfils, persists the date read
\* at the start of the call and returns Invoked with the result of func.
C20_DecisionRule ==
  /\ []RateRecords
  /\ [][RateStep]_vars

\* C20 witness: a call started at 0 with nothing persisted returned Invoked
\* after the clock had moved on, and a call one second later with m = 2 found
\* the date 0 persisted and was rate limited
C20_Witness ==
  /\ Len(invocations) = 2
  /\ invocations[1].kind = "Invoked"
  /\ invocations[1].last = NoDate
  /\ invocations[1].start = 0
  /\ invocations[2].kind = "RateLimited"
  /\ invocations[2].m = 2
  /\ invocations[2].last = 0
  /\ invocations[2].start = 1000
  /\ Persisted(globalState) = 0

(***************************************************************************)
(* Properties of the command handlers (checked under SpecCommands)         *)
(***************************************************************************)

\* the reports made for call i
ReportsFor(i) == SelectSeq(reports, LAMBDA r : r.call = i)

\* how an error of each kind is to be shown
ShownAs(e) ==
  IF e = SilentCancellation THEN "none"
  ELSE IF e = Cancellation THEN "warning"
  ELSE "error"

\* C21 (as claimed): a handler never rejects; when its task throws or rejects
\* it resolves with undefined and has reported the error once, a silent
\* cancellation by a log only, another cancellation by a warning, any other
\* error by an error message; when the task fulfils it resolves with the
\* task's result and has reported nothing.
C21_HandlerNeverRejects ==
  \A i \in 1..Len(handlerCalls) :
    LET c == handlerCalls[i]
    IN /\ c.st # "rejected"
       /\ c.task.st = "rejected" =>
            /\ c.st = "resolved" /\ c.out = undefined
            /\ Len(ReportsFor(i)) = 1
            /\ ReportsFor(i)[1].logged
            /\ ReportsFor(i)[1].shown = ShownAs(c.task.v)
       /\ c.task.st = "resolved" =>
            /\ c.st = "resolved" /\ c.out = c.task.v
            /\ ReportsFor(i) = <<>>
       /\ c.task.st = "pending" => (c.st = "pending" /\ ReportsFor(i) = <<>>)

(***************************************************************************)
(* Flush delay of the change events (checked under SpecEvents)             *)
(***************************************************************************)

\* C22 (as claimed): while records are buffered, their flush is scheduled no
\* later than 5 ms after the first of them was queued, whatever is queued
\* after it.
C22_BoundedFlushDelay ==
  bufferedEvents # <<>> =>
    /\ windowStart # -1
    /\ \E tm \in timers : tm.due <= windowStart + 5

(***************************************************************************)
(* InvocationRateLimiter under interleaving (checked under                 *)
(* SpecRateMonotone) and on failure (checked under SpecRate)               *)
(***************************************************************************)

\* C23 (as claimed): with a clock that never goes back, the start dates of
\* any two calls with one interval m > 0 that invoked func are at least
\* m seconds apart.
C23_InvocationSpacing ==
  \A i, j \in 1..Len(invocations) :
    (/\ i < j
     /\ invocations[i].m = invocations[j].m
     /\ invocations[i].m > 0
     /\ invocations[i].funcCalls = 1
     /\ invocations[j].funcCalls = 1)
    => invocations[j].start - invocations[i].start >= invocations[i].m * 1000

\* the step in which func rejects for call i
IsFuncRejectStep(i) ==
  invocations[i].pc = "func" /\ invocations'[i].kind = "rejected"

\* a call that func failed invoked func once, carries the error of func and
\* stored nothing
RejectedRecords ==
  \A i \in 1..Len(invocations) :
    invocations[i].kind = "rejected" =>
      /\ invocations[i].result \in Errors
      /\ invocations[i].funcCalls = 1
      /\ invocations[i].stored = NoDate

\* the step in which func rejects leaves the store alone, and a call that
\* finds no date stored invokes func
RejectStep ==
  /\ \A i \in 1..Len(invocations) :
       IsFuncRejectStep(i) =>
         /\ globalState' = globalState
         /\ invocations'[i].result \in Errors
  /\ (IsInvokeStep /\ Persisted(globalState) = NoDate) =>
       invocations'[Len(invocations')].funcCalls = 1

\* C24: when func rejects, the call rejects with the error of func and the
\* persisted date stays as it was, so that a following call is decided
\* against the date persisted before, and invokes func when there is none.
C24_FailureNotPersisted ==
  /\ []RejectedRecords
  /\ [][RejectStep]_vars

\* C24 witness: func rejected for a call with m = 2 that found no date, and
\* a second call at the same date found none either and invoked func again
C24_Witness ==
  /\ Len(invocations) = 2
  /\ invocations[1].kind = "rejected"
  /\ invocations[1].m = 2
  /\ invocations[1].last = NoDate
  /\ invocations[2].m = 2
  /\ invocations[2].start = invocations[1].start
  /\ invocations[2].last = NoDate
  /\ invocations[2].kind = "Invoked"
  /\ Persisted(globalState) = invocations[2].start

=============================================================================
